---- MODULE Spec2Model ----
(***************************************************************************)
(* Model of the ffmpeg merger service (src/main.py, src/main_v2.py): the   *)
(* in-memory temporary image store, the request handlers that feed it and  *)
(* the temporary files they create and delete.                             *)
(*                                                                         *)
(* Every handler is an `async def` without an await, so a handler runs to  *)
(* completion on the event loop before another one starts: one action per  *)
(* handler.  A FileResponse is only opened by the serving layer after the  *)
(* handler has returned, so that is a step of its own (StreamOpen).        *)
(* Time is the integer clock `now`; a handler that reads time.time() twice *)
(* may see the clock advance between the two reads.                        *)
(***************************************************************************)
EXTENDS Integers, Sequences, FiniteSets, TLC

\* ---- bounds of the model ----
MaxTime == 2
MaxPaths == 4
MaxIds == 2
MaxUrls == 2
MaxTs == 2
MaxDuration == 10

\* ids a client can ask for: every id uuid4 can hand out, and one it never does
Ids == 1..(MaxIds + 1)
\* url_expiry_seconds is Optional[int] with no range check
ExpirySeconds == {0 - 1, 0, 1}
\* probed durations and requested timestamps, in whole seconds
Durations == {1}
TsValues == {0 - 1, 0, 1, 2}

\* now          the clock, time.time()
\* temp_images  the store: image_id -> [path, expires_at, mime_type]
\* files        the temporary files on storage
\* nextPath     the next name tempfile hands out (names are never reused)
\* nextId       the next id uuid4 hands out (ids are never reused)
\* streams      the FileResponses returned by a handler and not yet opened
\* resp         the answer of the last completed request
\* registry     every entry ever registered, as registered, with the number
\*              of os.unlink calls and del statements made on it (history)
VARIABLES now, temp_images, files, nextPath, nextId, streams, resp, registry, call

vars == <<now, temp_images, files, nextPath, nextId, streams, resp, registry, call>>

\* ---- helpers ----
Restrict(f, S) == [x \in S |-> f[x]]

\* temp_images = {} (line 20)
EmptyStore == [x \in {} |-> x]

SeqsUpTo(S, n) == UNION {[1..k -> S] : k \in 0..n}

\* ---- the temporary image store (src/main.py 18-37) ----

\* a sweep that finds nothing expired
SweepExpired_Never(data, current_time) == FALSE

\* the sweep with the boundary instant counted as expired
SweepExpired_Inclusive(data, current_time) == data.expires_at <= current_time

\* line 27: the test that puts an id on the expired list
SweepExpired(data, current_time) == data.expires_at < current_time

\* os.unlink(path) inside `try: ... except Exception: pass` (lines 31-34 and
\* 383-386): the file goes unless the file system denies the deletion
try_unlink(fs, path, denied) == IF path \in denied THEN fs ELSE fs \ {path}

\* the loop with the entries left in the store
RECURSIVE unlink_all_KeepsEntries(_, _, _, _, _)
unlink_all_KeepsEntries(store, fs, expired_ids, denied, log) ==
    IF expired_ids = {} THEN [store |-> store, files |-> fs, log |-> log]
    ELSE LET image_id == CHOOSE i \in expired_ids : TRUE
             fs1 == try_unlink(fs, store[image_id].path, denied)
         IN unlink_all_KeepsEntries(store, fs1, expired_ids \ {image_id}, denied,
                                    Append(log, [op |-> "unlink", arg |-> store[image_id].path]))

\* the loop without the try/except around os.unlink: it ends at the first
\* deletion that is refused
RECURSIVE unlink_all_StopsAtFailure(_, _, _, _, _)
unlink_all_StopsAtFailure(store, fs, expired_ids, denied, log) ==
    IF expired_ids = {} THEN [store |-> store, files |-> fs, log |-> log]
    ELSE LET image_id == CHOOSE i \in expired_ids : TRUE
             fs1 == try_unlink(fs, store[image_id].path, denied)
             store1 == Restrict(store, DOMAIN store \ {image_id})
         IN IF store[image_id].path \in denied
            THEN [store |-> store, files |-> fs,
                  log |-> Append(log, [op |-> "unlink", arg |-> store[image_id].path])]
            ELSE unlink_all_StopsAtFailure(store1, fs1, expired_ids \ {image_id}, denied,
                       log \o <<[op |-> "unlink", arg |-> store[image_id].path],
                                 [op |-> "del", arg |-> image_id]>>)

\* lines 30-35: unlink each expired entry's file, then delete the entry; log
\* is the sequence of os.unlink calls and del statements made so far
RECURSIVE unlink_all(_, _, _, _, _)
unlink_all(store, fs, expired_ids, denied, log) ==
    IF expired_ids = {} THEN [store |-> store, files |-> fs, log |-> log]
    ELSE LET image_id == CHOOSE i \in expired_ids : TRUE
             fs1 == try_unlink(fs, store[image_id].path, denied)
             store1 == Restrict(store, DOMAIN store \ {image_id})
         IN unlink_all(store1, fs1, expired_ids \ {image_id}, denied,
                       log \o <<[op |-> "unlink", arg |-> store[image_id].path],
                                 [op |-> "del", arg |-> image_id]>>)

\* denied: the paths whose deletion the file system refuses
cleanup_expired_images(store, fs, current_time, denied) ==
    LET expired_ids == {image_id \in DOMAIN store : SweepExpired(store[image_id], current_time)}
        after == unlink_all(store, fs, expired_ids, denied, <<>>)
    IN [store |-> after.store, files |-> after.files, count |-> Cardinality(expired_ids),
        log |-> after.log]

\* the lookup with its expiry test left out
LookupExpired_Skipped(image_data, t) == FALSE

\* the lookup with its expiry test the wrong way round
LookupExpired_Reversed(image_data, t) == image_data.expires_at > t

\* line 382: the expiry test made after the lookup
LookupExpired(image_data, t) == image_data.expires_at < t

\* the handler with the two error statuses exchanged
get_temp_image_SwappedStatus(store, fs, image_id, t1, t2, denied) ==
    LET c == cleanup_expired_images(store, fs, t1, denied)
    IN IF image_id \notin DOMAIN c.store
       THEN [store |-> c.store, files |-> c.files, status |-> 410,
             path |-> {}, mime |-> {}, sweep |-> c, log |-> c.log]
       ELSE LET image_data == c.store[image_id]
            IN IF LookupExpired(image_data, t2)
               THEN [store |-> Restrict(c.store, DOMAIN c.store \ {image_id}),
                     files |-> try_unlink(c.files, image_data.path, denied),
                     status |-> 404, path |-> {}, mime |-> {}, sweep |-> c,
                     log |-> c.log \o <<[op |-> "unlink", arg |-> image_data.path],
                                       [op |-> "del", arg |-> image_id]>>]
               ELSE [store |-> c.store, files |-> c.files, status |-> 200,
                     path |-> {image_data.path}, mime |-> {image_data.mime_type},
                     sweep |-> c, log |-> c.log]

\* the handler with an expiry branch that deletes the file and keeps the entry
get_temp_image_KeepsExpired(store, fs, image_id, t1, t2, denied) ==
    LET c == cleanup_expired_images(store, fs, t1, denied)
    IN IF image_id \notin DOMAIN c.store
       THEN [store |-> c.store, files |-> c.files, status |-> 404,
             path |-> {}, mime |-> {}, sweep |-> c, log |-> c.log]
       ELSE LET image_data == c.store[image_id]
            IN IF LookupExpired(image_data, t2)
               THEN [store |-> c.store,
                     files |-> try_unlink(c.files, image_data.path, denied),
                     status |-> 410, path |-> {}, mime |-> {}, sweep |-> c,
                     log |-> Append(c.log, [op |-> "unlink", arg |-> image_data.path])]
               ELSE [store |-> c.store, files |-> c.files, status |-> 200,
                     path |-> {image_data.path}, mime |-> {image_data.mime_type},
                     sweep |-> c, log |-> c.log]

\* GET /temp-image/{image_id}; t1 and t2 are the two readings of time.time()
\* and denied the paths whose deletion the file system refuses
get_temp_image(store, fs, image_id, t1, t2, denied) ==
    LET c == cleanup_expired_images(store, fs, t1, denied)
    IN IF image_id \notin DOMAIN c.store
       THEN [store |-> c.store, files |-> c.files, status |-> 404,
             path |-> {}, mime |-> {}, sweep |-> c, log |-> c.log]
       ELSE LET image_data == c.store[image_id]
            IN IF LookupExpired(image_data, t2)
               THEN [store |-> Restrict(c.store, DOMAIN c.store \ {image_id}),
                     files |-> try_unlink(c.files, image_data.path, denied),
                     status |-> 410, path |-> {}, mime |-> {}, sweep |-> c,
                     log |-> c.log \o <<[op |-> "unlink", arg |-> image_data.path],
                                       [op |-> "del", arg |-> image_id]>>]
               ELSE [store |-> c.store, files |-> c.files, status |-> 200,
                     path |-> {image_data.path}, mime |-> {image_data.mime_type},
                     sweep |-> c, log |-> c.log]

\* ---- the request pipeline (src/main.py 53-365, src/main_v2.py 21-203) ----

\* a remote fetch succeeds, is refused before any byte arrives, or breaks
\* off while the body is being written
DownloadOutcomes == {"ok", "refused", "broken"}

\* download_file: requests.get and raise_for_status come before the
\* temporary file is created, iter_content after it
download_file(p, outcome) ==
    IF outcome = "refused"
    THEN [ok |-> FALSE, created |-> {}, next |-> p]
    ELSE [ok |-> outcome = "ok", created |-> {p}, next |-> p + 1]

\* the exceptions the handlers can see
RequestException == [class |-> "RequestException", stderr |-> FALSE, cause |-> "fetch"]
\* subprocess.check_output in get_duration does not capture stderr: e.stderr is None
ProbeError == [class |-> "CalledProcessError", stderr |-> FALSE, cause |-> "tool"]
\* subprocess.run(..., check=True, capture_output=True)
TransformError == [class |-> "CalledProcessError", stderr |-> TRUE, cause |-> "tool"]
\* raise HTTPException(status_code=400, ...) inside the try block
ValidationError == [class |-> "HTTPException", stderr |-> FALSE, cause |-> "validation"]

\* the except clauses shared by /merge, /stitch and /extract-frames, tried in
\* order; HTTPException is a subclass of Exception.  e.stderr.decode() on a
\* None stderr raises inside the clause and leaves the handler unhandled.
except_clauses(e) ==
    IF e.class = "RequestException" THEN [status |-> 400, handled |-> TRUE]
    ELSE IF e.class = "CalledProcessError"
         THEN [status |-> 500, handled |-> e.stderr]
         ELSE [status |-> 500, handled |-> TRUE]

\* the outcome of a pipeline handler that raised e
Raised(e, fs, next, inputs, outputs, scratch) ==
    [status |-> except_clauses(e).status, handled |-> except_clauses(e).handled,
     kind |-> e.cause, files |-> fs, next |-> next, inputs |-> inputs,
     outputs |-> outputs, scratch |-> scratch, stream |-> {}]

RECURSIVE GCD(_, _)
GCD(a, b) == IF b = 0 THEN a ELSE GCD(b, a % b)

\* the quotient a / b of two durations, as a fraction in lowest terms
Ratio(a, b) == [num |-> a \div GCD(a, b), den |-> b \div GCD(a, b)]

\* merge_audio_video, lines 84-90: `if target_duration:` is the truth value of
\* an Optional[float]; an absent target_duration is the empty set here
sync_duration(target_duration, video_duration, audio_duration) ==
    IF \E t \in target_duration : t # 0
    THEN CHOOSE t \in target_duration : TRUE
    ELSE IF video_duration <= audio_duration THEN video_duration ELSE audio_duration

\* the speed multiplier with the quotient taken the other way round
speed_factor_Inverted(video_duration, audio_duration) ==
    IF audio_duration > 0 THEN Ratio(audio_duration, video_duration) ELSE Ratio(1, 1)

\* merge_audio_video, line 93
speed_factor(video_duration, audio_duration) ==
    IF audio_duration > 0 THEN Ratio(video_duration, audio_duration) ELSE Ratio(1, 1)

\* POST /merge
merge(fs, p, dv, da, probe, ffmpeg) ==
    LET v == download_file(p, dv)
        a == download_file(v.next, da)
        output_path == a.next
        inputs == v.created \cup a.created
    IN IF ~v.ok THEN Raised(RequestException, fs \cup v.created, v.next, v.created, {}, {})
       ELSE IF ~a.ok THEN Raised(RequestException, fs \cup inputs, a.next, inputs, {}, {})
       ELSE IF ~probe
            THEN Raised(ProbeError, fs \cup inputs \cup {output_path},
                        output_path + 1, inputs, {output_path}, {})
       ELSE IF ~ffmpeg
            THEN Raised(TransformError, fs \cup inputs \cup {output_path},
                        output_path + 1, inputs, {output_path}, {})
       ELSE [status |-> 200, handled |-> TRUE, kind |-> "file",
             files |-> (fs \cup inputs \cup {output_path}) \ inputs,
             next |-> output_path + 1, inputs |-> inputs,
             outputs |-> {output_path}, scratch |-> {}, stream |-> {output_path}]

\* lines 230-233: download the urls in order, stopping at the first failure
RECURSIVE download_all(_, _, _, _)
download_all(p, outcomes, i, acc) ==
    IF i > Len(outcomes) THEN [ok |-> TRUE, created |-> acc, next |-> p]
    ELSE LET f == download_file(p, outcomes[i])
         IN IF ~f.ok THEN [ok |-> FALSE, created |-> acc \cup f.created, next |-> f.next]
            ELSE download_all(f.next, outcomes, i + 1, acc \cup f.created)

\* /stitch with the length check moved after the downloads
stitch_ValidatesAfterDownload(fs, p, outcomes, ffmpeg) ==
    LET dl == download_all(p, outcomes, 1, {})
        output_path == dl.next
        concat_file == dl.next + 1
    IN IF ~dl.ok THEN Raised(RequestException, fs \cup dl.created, dl.next, dl.created, {}, {})
       ELSE IF Len(outcomes) < 2
       THEN Raised(ValidationError, fs \cup dl.created, dl.next, dl.created, {}, {})
       ELSE IF ~ffmpeg
       THEN Raised(TransformError, fs \cup dl.created \cup {output_path, concat_file},
                   concat_file + 1, dl.created, {output_path}, {concat_file})
       ELSE [status |-> 200, handled |-> TRUE, kind |-> "file",
             files |-> ((fs \cup dl.created \cup {output_path, concat_file})
                        \ {concat_file}) \ dl.created,
             next |-> concat_file + 1, inputs |-> dl.created,
             outputs |-> {output_path}, scratch |-> {concat_file},
             stream |-> {output_path}]

\* POST /stitch; outcomes[i] is the fate of the i-th download
stitch(fs, p, outcomes, ffmpeg) ==
    IF Len(outcomes) < 2 THEN Raised(ValidationError, fs, p, {}, {}, {})
    ELSE LET dl == download_all(p, outcomes, 1, {})
             output_path == dl.next
             concat_file == dl.next + 1
         IN IF ~dl.ok THEN Raised(RequestException, fs \cup dl.created, dl.next, dl.created, {}, {})
            ELSE IF ~ffmpeg
                 THEN Raised(TransformError, fs \cup dl.created \cup {output_path, concat_file},
                             concat_file + 1, dl.created, {output_path}, {concat_file})
            ELSE [status |-> 200, handled |-> TRUE, kind |-> "file",
                  files |-> ((fs \cup dl.created \cup {output_path, concat_file})
                             \ {concat_file}) \ dl.created,
                  next |-> concat_file + 1, inputs |-> dl.created,
                  outputs |-> {output_path}, scratch |-> {concat_file},
                  stream |-> {output_path}]

\* extract_frames collecting the frame paths in reverse
RECURSIVE extract_frames_Reversed(_, _, _, _, _)
extract_frames_Reversed(p, timestamps, failAt, i, frame_paths) ==
    IF i > Len(timestamps)
    THEN [ok |-> TRUE, frame_paths |-> frame_paths, created |-> p..(p - 1), next |-> p]
    ELSE LET frame_path == p
         IN IF failAt = i
            THEN [ok |-> FALSE, frame_paths |-> frame_paths, created |-> {frame_path},
                  next |-> p + 1]
            ELSE LET rest == extract_frames_Reversed(p + 1, timestamps, failAt, i + 1,
                                                     <<frame_path>> \o frame_paths)
                 IN [rest EXCEPT !.created = rest.created \cup {frame_path}]

\* extract_frames (lines 140-161): one temporary file and one ffmpeg run per
\* timestamp, in list order; failAt = k makes the k-th run exit non-zero
RECURSIVE extract_frames(_, _, _, _, _)
extract_frames(p, timestamps, failAt, i, frame_paths) ==
    IF i > Len(timestamps)
    THEN [ok |-> TRUE, frame_paths |-> frame_paths, created |-> p..(p - 1), next |-> p]
    ELSE LET frame_path == p
         IN IF failAt = i
            THEN [ok |-> FALSE, frame_paths |-> frame_paths, created |-> {frame_path},
                  next |-> p + 1]
            ELSE LET rest == extract_frames(p + 1, timestamps, failAt, i + 1,
                                            Append(frame_paths, frame_path))
                 IN [rest EXCEPT !.created = rest.created \cup {frame_path}]

\* a range check that forgets the lower bound
OutOfRange_UpperOnly(timestamps, video_duration) ==
    {i \in 1..Len(timestamps) : timestamps[i] > video_duration}

\* lines 287-293: the timestamps that fail the range check, by position
OutOfRange(timestamps, video_duration) ==
    {i \in 1..Len(timestamps) : timestamps[i] < 0 \/ timestamps[i] > video_duration}

Min(S) == CHOOSE x \in S : \A y \in S : x <= y

SeqRange(q) == {q[i] : i \in 1..Len(q)}

\* POST /extract-frames; request is the parsed body, fate what the download,
\* the probe and the extractions do, t1 the clock read by the sweep, t2 the
\* one read for expiry_time, nid the first unused uuid
extract_frames_endpoint(store, fs, p, nid, request, fate, t1, t2) ==
    LET timestamps == request.timestamps
        return_urls == request.return_urls
        url_expiry_seconds == request.url_expiry_seconds
        dv == fate.dv
        probe == fate.probe
        video_duration == fate.video_duration
        failAt == fate.failAt
        none == [store |-> store, nextId |-> nid, registered |-> {}, swept |-> {},
                 offending |-> {}, frames |-> <<>>, frames_count |-> {}, log |-> <<>>]
        v == download_file(p, dv)
        bad == OutOfRange(timestamps, video_duration)
        x == extract_frames(v.next, timestamps, failAt, 1, <<>>)
        c == cleanup_expired_images(store, ((fs \cup v.created) \cup x.created) \ v.created,
                                    t1, fate.denied)
        expiry_time == t2 + url_expiry_seconds
        n == Len(x.frame_paths)
        image_id(i) == nid + i - 1
    IN IF timestamps = <<>>
       THEN Raised(ValidationError, fs, p, {}, {}, {}) @@ none
       ELSE IF ~v.ok
       THEN Raised(RequestException, fs \cup v.created, v.next, v.created, {}, {}) @@ none
       ELSE IF ~probe
       THEN Raised(ProbeError, fs \cup v.created, v.next, v.created, {}, {}) @@ none
       ELSE IF bad # {}
       THEN Raised(ValidationError, (fs \cup v.created) \ v.created, v.next, v.created, {}, {})
            @@ [none EXCEPT !.offending = {timestamps[Min(bad)]}]
       ELSE IF ~x.ok
       THEN Raised(TransformError, (fs \cup v.created) \cup x.created, x.next,
                   v.created, x.created, {}) @@ none
       ELSE IF return_urls
       THEN [status |-> 200, handled |-> TRUE, kind |-> "urls",
             files |-> c.files, next |-> x.next, inputs |-> v.created,
             outputs |-> x.created, scratch |-> {}, stream |-> {},
             store |-> [k \in {image_id(i) : i \in 1..n} |->
                          [path |-> x.frame_paths[k - nid + 1], expires_at |-> expiry_time,
                           mime_type |-> "image/jpeg"]] @@ c.store,
             nextId |-> nid + n, registered |-> {image_id(i) : i \in 1..n},
             swept |-> {c}, offending |-> {}, frames_count |-> {n}, log |-> c.log,
             frames |-> [i \in 1..n |->
                          [timestamp |-> timestamps[i], frame_number |-> i - 1,
                           path |-> x.frame_paths[i], image_id |-> {image_id(i)}]]]
       ELSE [status |-> 200, handled |-> TRUE, kind |-> "base64",
             files |-> c.files \ SeqRange(x.frame_paths), next |-> x.next,
             inputs |-> v.created, outputs |-> x.created, scratch |-> {}, stream |-> {},
             store |-> c.store, nextId |-> nid, registered |-> {},
             swept |-> {c}, offending |-> {}, frames_count |-> {n}, log |-> c.log,
             frames |-> [i \in 1..n |->
                          [timestamp |-> timestamps[i], frame_number |-> i - 1,
                           path |-> x.frame_paths[i], image_id |-> {}]]]

\* The answer of the last completed request, with what the properties need
\* to know about the request: the id asked for and whether the store held
\* it when the request began (id, held), the clock values it read (t1, t2),
\* the file and content type it answered with (path, mime), the temporary
\* files it created (inputs, outputs, scratch), the ids it registered, the
\* value its sweep returned (reclaimed), whether the handler itself built
\* the answer (handled), and for /extract-frames the frames of the answer
\* and the timestamp named by a range error (frames, offending), and for
\* /stitch the number of urls of the request (urls); for /extract-frames
\* also the timestamps asked for and the duration of the video; for the
\* requests that sweep, the paths whose deletion was refused (denied).
Response(op, status, kind) ==
    [op |-> op, status |-> status, kind |-> kind, id |-> {}, held |-> FALSE,
     t1 |-> 0, t2 |-> 0, path |-> {}, mime |-> {},
     inputs |-> {}, outputs |-> {}, scratch |-> {}, registered |-> {},
     handled |-> TRUE, offending |-> {}, frames |-> <<>>, reclaimed |-> {},
     urls |-> {}, timestamps |-> <<>>, duration |-> {}, frames_count |-> {},
     denied |-> {}]

\* no call of merge_audio_video is being followed
NoCall ==
    [video_duration |-> 0, audio_duration |-> 0, target_duration |-> {},
     sync_duration |-> {}, speed_factor |-> {}]

Init ==
    /\ now = 0
    /\ temp_images = EmptyStore
    /\ files = {}
    /\ nextPath = 1
    /\ nextId = 1
    /\ streams = {}
    /\ resp = Response("none", 0, "none")
    /\ registry = EmptyStore
    /\ call = NoCall

\* time passes between requests
Tick ==
    /\ now < MaxTime
    /\ now' = now + 1
    /\ UNCHANGED <<temp_images, files, nextPath, nextId, streams, resp, registry, call>>

\* the number of times the log has the operation on the argument
Count(log, op, arg) ==
    Cardinality({k \in 1..Len(log) : log[k].op = op /\ log[k].arg = arg})

\* the registry with the os.unlink calls and del statements of a request
\* added to the tallies of the artifacts they were made on
Logged(reg, log) ==
    [i \in DOMAIN reg |->
        [reg[i] EXCEPT !.unlinks = @ + Count(log, "unlink", reg[i].entry.path),
                       !.dels = @ + Count(log, "del", i)]]

\* what the file system can do to the deletions of a request that reads the
\* clock at t: grant them all, or, where it may fail, refuse any of those
\* of the expired entries
Denials(faulty, t) ==
    IF faulty
    THEN SUBSET {temp_images[i].path : i \in {j \in DOMAIN temp_images :
                                                temp_images[j].expires_at < t}}
    ELSE {{}}

GetTempImageIn(faulty) ==
    \E image_id \in Ids, d \in 0..1 :
        /\ now + d <= MaxTime
        /\ \E denied \in Denials(faulty, now + d) :
           \E r \in {get_temp_image(temp_images, files, image_id, now, now + d, denied)} :
              /\ temp_images' = r.store
              /\ files' = r.files
              /\ streams' = streams \cup {[path |-> p, op |-> "temp-image"] : p \in r.path}
              /\ registry' = Logged(registry, r.log)
              /\ resp' = [Response("temp-image", r.status,
                                   IF r.status = 200 THEN "file"
                                   ELSE IF r.status = 404 THEN "not_found" ELSE "expired")
                          EXCEPT !.id = {image_id},
                                 !.held = image_id \in DOMAIN temp_images,
                                 !.t1 = now, !.t2 = now + d,
                                 !.path = r.path, !.mime = r.mime,
                                 !.reclaimed = {r.sweep.count},
                                 !.denied = denied]
        /\ now' = now + d
        /\ UNCHANGED <<nextPath, nextId, call>>

\* GET /temp-image/{image_id} on a file system that grants every deletion
GetTempImage == GetTempImageIn(FALSE)

\* the ways the environment can treat one /merge request
MergeFates ==
    {[dv |-> o, da |-> "ok", probe |-> TRUE, ffmpeg |-> TRUE] : o \in DownloadOutcomes}
    \cup {[dv |-> "ok", da |-> o, probe |-> TRUE, ffmpeg |-> TRUE] : o \in DownloadOutcomes}
    \cup {[dv |-> "ok", da |-> "ok", probe |-> FALSE, ffmpeg |-> TRUE],
          [dv |-> "ok", da |-> "ok", probe |-> TRUE, ffmpeg |-> FALSE]}

Merge ==
    \E fate \in MergeFates :
        \E r \in {merge(files, nextPath, fate.dv, fate.da, fate.probe, fate.ffmpeg)} :
           /\ r.next <= MaxPaths + 1
           /\ files' = r.files
           /\ nextPath' = r.next
           /\ streams' = streams \cup {[path |-> q, op |-> "merge"] : q \in r.stream}
           /\ resp' = [Response("merge", r.status, r.kind)
                       EXCEPT !.handled = r.handled, !.inputs = r.inputs,
                              !.outputs = r.outputs, !.scratch = r.scratch,
                              !.path = r.stream]
           /\ UNCHANGED <<now, temp_images, nextId, registry, call>>

\* the ways the environment can treat one /stitch request of n urls: every
\* download succeeds, or the k-th is the first to fail
StitchOutcomes(n) ==
    {[i \in 1..n |-> "ok"]}
    \cup {[i \in 1..n |-> IF i = k THEN how ELSE "ok"] :
            k \in (IF n < 2 THEN {} ELSE 1..n), how \in DownloadOutcomes \ {"ok"}}

Stitch ==
    \E n \in 0..MaxUrls :
    \E outcomes \in StitchOutcomes(n) :
    \E ffmpeg \in IF n >= 2 /\ outcomes = [i \in 1..n |-> "ok"] THEN BOOLEAN ELSE {TRUE} :
        \E r \in {stitch(files, nextPath, outcomes, ffmpeg)} :
           /\ r.next <= MaxPaths + 1
           /\ files' = r.files
           /\ nextPath' = r.next
           /\ streams' = streams \cup {[path |-> q, op |-> "stitch"] : q \in r.stream}
           /\ resp' = [Response("stitch", r.status, r.kind)
                       EXCEPT !.handled = r.handled, !.inputs = r.inputs,
                              !.outputs = r.outputs, !.scratch = r.scratch,
                              !.path = r.stream, !.urls = {n}]
           /\ UNCHANGED <<now, temp_images, nextId, registry, call>>
\* the ways the environment can treat one /extract-frames request: the first
\* thing that goes wrong, if anything does
ExtractFates ==
    {[dv |-> o, probe |-> TRUE, failAt |-> 0] : o \in DownloadOutcomes}
    \cup {[dv |-> "ok", probe |-> FALSE, failAt |-> 0]}
    \cup {[dv |-> "ok", probe |-> TRUE, failAt |-> k] : k \in 1..MaxTs}

\* the timestamp lists a request can carry
AllTimestampLists == SeqsUpTo(TsValues, MaxTs)

\* the timestamp lists of the requests that meet a fate.  A request whose
\* download or probe fails never looks at its timestamps beyond their being
\* non-empty, and a failing extraction does not depend on the value of its
\* timestamp, so one list stands for all of them there.  The range check
\* looks at the timestamps one by one and stops at the first offending one:
\* of the lists that fail it, those are taken in which that timestamp comes
\* after 0s only and at most one timestamp follows it.
TimestampLists(fate, video_duration) ==
    IF fate.dv # "ok" \/ ~fate.probe THEN {<<0>>}
    ELSE IF fate.failAt > 0 THEN {[i \in 1..n |-> 0] : n \in fate.failAt..MaxTs}
    ELSE {ts \in AllTimestampLists :
            OutOfRange(ts, video_duration) # {} =>
                LET i == Min(OutOfRange(ts, video_duration))
                IN Len(ts) <= i + 1 /\ \A j \in 1..(i - 1) : ts[j] = 0}

\* whether the request reaches the sweep and the answer
Completes(timestamps, video_duration, fate) ==
    /\ timestamps # <<>>
    /\ OutOfRange(timestamps, video_duration) = {}
    /\ fate.dv = "ok" /\ fate.probe /\ fate.failAt = 0

\* the number of temporary files the request creates (lines 281 and 146)
FilesCreated(timestamps, video_duration, fate) ==
    IF timestamps = <<>> \/ fate.dv = "refused" THEN 0
    ELSE IF fate.dv = "broken" \/ ~fate.probe
              \/ OutOfRange(timestamps, video_duration) # {} THEN 1
    ELSE IF fate.failAt > 0 THEN 1 + fate.failAt
    ELSE 1 + Len(timestamps)

ExtractFramesIn(faulty) ==
    \E fate \in ExtractFates, video_duration \in Durations :
    \E timestamps \in TimestampLists(fate, video_duration) :
        /\ nextPath + FilesCreated(timestamps, video_duration, fate) <= MaxPaths + 1
        /\ \E return_urls \in IF Completes(timestamps, video_duration, fate)
                              THEN BOOLEAN ELSE {FALSE} :
            /\ return_urls => nextId + Len(timestamps) <= MaxIds + 1
            /\ \E url_expiry_seconds \in IF return_urls THEN ExpirySeconds ELSE {0},
                  d \in IF return_urls THEN 0..1 ELSE {0},
                  denied \in IF Completes(timestamps, video_duration, fate)
                             THEN Denials(faulty, now) ELSE {{}} :
                /\ now + d <= MaxTime
                /\ \E r \in {extract_frames_endpoint(
                                temp_images, files, nextPath, nextId,
                                [timestamps |-> timestamps, return_urls |-> return_urls,
                                 url_expiry_seconds |-> url_expiry_seconds],
                                fate @@ [video_duration |-> video_duration,
                                         denied |-> denied],
                                now, now + d)} :
                    /\ r.next <= MaxPaths + 1
                    /\ r.nextId <= MaxIds + 1
                    /\ temp_images' = r.store
                    /\ files' = r.files
                    /\ nextPath' = r.next
                    /\ nextId' = r.nextId
                    /\ registry' = [i \in r.registered |->
                                       [entry |-> r.store[i],
                                        ttl_given |-> url_expiry_seconds >= 0,
                                        unlinks |-> 0, dels |-> 0]]
                                    @@ Logged(registry, r.log)
                    /\ resp' = [Response("extract-frames", r.status, r.kind)
                                EXCEPT !.handled = r.handled, !.inputs = r.inputs,
                                       !.outputs = r.outputs, !.registered = r.registered,
                                       !.offending = r.offending, !.frames = r.frames,
                                       !.frames_count = r.frames_count,
                                       !.reclaimed = {c.count : c \in r.swept},
                                       !.t1 = IF r.swept = {} THEN 0 ELSE now,
                                       !.t2 = IF r.swept = {} THEN 0 ELSE now + d,
                                       !.timestamps = timestamps,
                                       !.duration = {video_duration},
                                       !.denied = denied]
                    /\ now' = now + d
                    /\ UNCHANGED <<streams, call>>

\* POST /extract-frames on a file system that grants every deletion
ExtractFrames == ExtractFramesIn(FALSE)

\* the serving layer opens the file of a FileResponse some time after the
\* handler that built it has returned, and then transmits it
StreamOpen ==
    \E s \in streams :
        /\ streams' = streams \ {s}
        /\ resp' = [Response("stream", IF s.path \in files THEN 200 ELSE 500, s.op)
                    EXCEPT !.path = {s.path}, !.handled = s.path \in files]
        /\ UNCHANGED <<now, temp_images, files, nextPath, nextId, registry, call>>

Next ==
    \/ Tick
    \/ GetTempImage
    \/ Merge
    \/ Stitch
    \/ ExtractFrames
    \/ StreamOpen

Spec == Init /\ [][Next]_vars

\* ---- the store on its own, with requests that keep arriving ----

\* a request that sweeps: GET /temp-image/{id} for any id, or an
\* /extract-frames that reaches line 303
Sweeping ==
    \/ GetTempImage
    \/ ExtractFrames /\ resp'.reclaimed # {}

\* the requests that touch temp_images, and the passing of time
StoreNext ==
    \/ Tick
    \/ Sweeping

\* the service is never left without a later sweeping request
StoreSpec == Init /\ [][StoreNext]_vars /\ WF_vars(Sweeping)

\* ---- the store on a file system that may refuse a deletion ----

FaultNext ==
    \/ Tick
    \/ GetTempImageIn(TRUE)
    \/ ExtractFramesIn(TRUE) /\ resp'.reclaimed # {}

FaultSpec == Init /\ [][FaultNext]_vars

\* ---- the duration arithmetic of merge_audio_video on its own ----

\* durations in whole seconds
ProbedDurations == 0..MaxDuration

\* target_duration: Optional[float] = None
TargetDurations == {{}} \cup {{t} : t \in ProbedDurations}

\* a call of merge_audio_video with the two probed durations and the
\* target_duration of the request, before the durations are computed
SyncInit ==
    /\ now = 0
    /\ temp_images = EmptyStore
    /\ files = {}
    /\ nextPath = 1
    /\ nextId = 1
    /\ streams = {}
    /\ resp = Response("none", 0, "none")
    /\ registry = EmptyStore
    /\ call \in [video_duration : ProbedDurations, audio_duration : ProbedDurations,
                  target_duration : TargetDurations,
                  sync_duration : {{}}, speed_factor : {{}}]

\* lines 84-93: the sync duration and the speed multiplier that go into the
\* ffmpeg filter
MergeAudioVideo ==
    /\ call.sync_duration = {}
    /\ call' = [call EXCEPT
                   !.sync_duration = {sync_duration(call.target_duration,
                                                    call.video_duration,
                                                    call.audio_duration)},
                   !.speed_factor = {speed_factor(call.video_duration,
                                                  call.audio_duration)}]
    /\ UNCHANGED <<now, temp_images, files, nextPath, nextId, streams, resp, registry>>

SyncNext == MergeAudioVideo

SyncSpec == SyncInit /\ [][SyncNext]_vars

\* ---- properties ----

IsGet == resp.op = "temp-image"

\* the entry an id was registered with
Registered(i) == registry[i].entry

\* the id the last GET /temp-image asked for
RespId == CHOOSE i \in resp.id : TRUE

\* the last request was a GET for an id registered with a ttl >= 0, issued
\* after its expiry
GetAfterExpiry ==
    /\ IsGet
    /\ RespId \in DOMAIN registry
    /\ registry[RespId].ttl_given
    /\ Registered(RespId).expires_at < resp.t1

\* C1: a GET /temp-image/{id} issued strictly after registration + ttl answers
\* 410 Expired if the entry was still in the store, and the entry is then
\* gone, so that the next GET for the id answers 404 NotFound.
C1_ExpiredThenNotFound ==
    GetAfterExpiry =>
        /\ resp.held => resp.status = 410
        /\ ~resp.held => resp.status = 404
        /\ RespId \notin DOMAIN temp_images

\* C2: a file that get_temp_image has handed to the serving layer is still on
\* storage for as long as the serving layer has not opened it.
C2_ServedFileKeptUntilOpened ==
    \A s \in streams : s.op = "temp-image" => s.path \in files

\* C3 as stated: get_temp_image never answers with the file of an artifact
\* with expires_at <= now at the moment liveness is decided, and after the
\* request no entry with expires_at <= the sweep's clock is left.
C3_NeverServedAtOrAfterExpiry ==
    IsGet =>
        /\ resp.status = 200 => Registered(RespId).expires_at > resp.t2
        /\ \A i \in DOMAIN temp_images : temp_images[i].expires_at > resp.t1

\* C3 as amended: get_temp_image never answers with the file of an artifact
\* with expires_at < now at the moment liveness is decided: such an artifact
\* is reported 404 or 410, its entry and its file are gone, and after the
\* request no entry with expires_at < the sweep's clock is left.  An artifact
\* with expires_at = now is still served.
C3_NeverServedAfterExpiry ==
    IsGet =>
        /\ resp.status = 200 => Registered(RespId).expires_at >= resp.t2
        /\ \A i \in DOMAIN temp_images : temp_images[i].expires_at >= resp.t1
        /\ (RespId \in DOMAIN registry /\ Registered(RespId).expires_at < resp.t2) =>
              /\ resp.status \in {404, 410}
              /\ resp.path = {}
              /\ RespId \notin DOMAIN temp_images
              /\ Registered(RespId).path \notin files

\* an expired artifact that was still in the store was asked for and refused
C3_Witness ==
    /\ IsGet /\ resp.held
    /\ Registered(RespId).expires_at < resp.t2
    /\ resp.status = 410

\* a step of GET /temp-image, which sweeps at the clock value `now`
GetStep == resp'.op = "temp-image" /\ resp'.t1 = now /\ resp'.t2 = now'

\* a step of POST /extract-frames that reaches its sweep
ExtractSweepStep ==
    resp'.op = "extract-frames" /\ resp'.reclaimed # {} /\ nextPath' # nextPath

\* what the step's sweep did, if `gone` are the ids it had to reclaim: they
\* and their files are gone, their number is returned, every other entry
\* and its file are as before (but for the entry the same GET then found
\* expired), and a second sweep at the same instant reclaims nothing
SweepReclaims(gone) ==
    LET kept == DOMAIN temp_images \ gone
        refused == IF resp'.status = 410 THEN resp'.id ELSE {}
    IN /\ \A i \in gone : i \notin DOMAIN temp_images' /\ temp_images[i].path \notin files'
       /\ \A i \in kept \ refused :
             /\ i \in DOMAIN temp_images'
             /\ temp_images'[i] = temp_images[i]
             /\ temp_images[i].path \in files <=> temp_images[i].path \in files'
       /\ resp'.reclaimed = {Cardinality(gone)}
       /\ resp'.registered = {} =>
             cleanup_expired_images(temp_images', files', now, {}).count = 0

\* C4 as stated: a sweep at time now removes exactly the entries with
\* expires_at <= now, deletes their files, returns their count and leaves
\* the others unchanged; a second sweep at the same instant reclaims 0.
C4_SweepReclaimsUpToNow ==
    [][(GetStep \/ ExtractSweepStep) =>
          SweepReclaims({i \in DOMAIN temp_images : temp_images[i].expires_at <= now})]_vars

\* C4 as amended: a sweep at time now removes exactly the entries with
\* expires_at < now (an entry with expires_at = now is kept), deletes their
\* files, returns their count and leaves the others unchanged; a second
\* sweep at the same instant reclaims 0.
C4_SweepReclaimsBeforeNow ==
    [][(GetStep \/ ExtractSweepStep) =>
          SweepReclaims({i \in DOMAIN temp_images : temp_images[i].expires_at < now})]_vars

\* a sweep has reclaimed one entry and kept another
C4_Witness ==
    /\ IsGet
    /\ resp.reclaimed = {1}
    /\ \E i \in DOMAIN temp_images : i \notin resp.id

\* C5: a GET /temp-image/{id} made before the artifact's expires_at answers
\* with the path and content type it was registered with, and leaves the
\* entry in the store with its expires_at unchanged.
C5_ReadsBeforeExpiry ==
    (IsGet /\ RespId \in DOMAIN registry /\ resp.t2 < Registered(RespId).expires_at) =>
        /\ resp.status = 200
        /\ resp.path = {Registered(RespId).path}
        /\ resp.mime = {Registered(RespId).mime_type}
        /\ RespId \in DOMAIN temp_images
        /\ temp_images[RespId] = Registered(RespId)
        /\ Registered(RespId).path \in files

\* an artifact was read before its expiry, some time after its registration
C5_Witness ==
    /\ IsGet /\ RespId \in DOMAIN registry
    /\ resp.t2 < Registered(RespId).expires_at
    /\ resp.t1 > 0
    /\ resp.status = 200

\* C6: a GET /temp-image/{id} for an id that was never registered answers
\* 404 and adds no entry for the id.
C6_UnknownIdNotFound ==
    (IsGet /\ RespId \notin DOMAIN registry) =>
        /\ resp.status = 404
        /\ resp.path = {}
        /\ RespId \notin DOMAIN temp_images

\* an id that was never registered was asked for while the store held others
C6_Witness ==
    /\ IsGet /\ RespId \notin DOMAIN registry
    /\ temp_images # EmptyStore
    /\ resp.status = 404

Pipelines == {"merge", "stitch", "extract-frames"}

\* C7: once a /merge, /stitch or /extract-frames request has completed, no
\* temporary input file that download_file created for it is on storage.
C7_InputsReleased ==
    resp.op \in Pipelines => resp.inputs \cap files = {}

\* C8: the output file of a successful /merge or /stitch request is gone
\* from storage once it has been transmitted.
C8_OutputDeletedAfterTransmission ==
    (resp.op = "stream" /\ resp.kind \in {"merge", "stitch"} /\ resp.status = 200) =>
        resp.path \cap files = {}

\* C9: when a request fails, every temporary output file it had created
\* (frames, the output file, the concat list) is deleted and nothing of the
\* request is registered.
C9_FailureLeavesNoOutput ==
    (resp.op \in Pipelines /\ resp.status # 200) =>
        /\ (resp.outputs \cup resp.scratch) \cap files = {}
        /\ resp.registered = {}

\* C10: a validation failure is answered with status 400.
C10_ValidationIsClientFault ==
    resp.kind = "validation" => resp.status = 400

\* C11: a /stitch request with fewer than 2 video urls fails before any
\* download: the step that answers it calls download_file for nothing,
\* creates no temporary file, and hands nothing to the serving layer.
C11_ShortStitchFailsBeforeDownload ==
    [][\A n \in 0..1 :
          (resp'.op = "stitch" /\ resp'.urls = {n}) =>
              /\ resp'.status # 200
              /\ resp'.kind = "validation"
              /\ resp'.inputs = {} /\ resp'.outputs = {} /\ resp'.scratch = {}
              /\ files' = files /\ nextPath' = nextPath /\ streams' = streams]_vars

\* a /stitch request with a single url was refused while other requests'
\* files were on storage
C11_Witness ==
    /\ resp.op = "stitch" /\ resp.urls = {1}
    /\ resp.status # 200
    /\ files # {}

\* the positions of the requested timestamps outside 0 <= ts <= duration
Violating(r) ==
    {i \in 1..Len(r.timestamps) :
        \E dur \in r.duration : ~(0 <= r.timestamps[i] /\ r.timestamps[i] <= dur)}

\* a step of POST /extract-frames that got as far as the range check: the
\* video was downloaded, and the failure, if any, is not one of the download
\* or of the probe (a tool failure before any frame file exists)
ExtractCheckedStep ==
    /\ resp'.op = "extract-frames"
    /\ nextPath' # nextPath
    /\ resp'.kind # "fetch"
    /\ ~(resp'.kind = "tool" /\ resp'.outputs = {})

\* C12: if a timestamp of an /extract-frames request is outside
\* 0 <= ts <= duration, the request fails and names the first such timestamp
\* of the list; no frame is extracted, not even for the valid timestamps
\* before it, and nothing is registered: the store, the id counter and the
\* files on storage are as before, and the only temporary file the request
\* created is the downloaded video.
C12_RangeFailureExtractsNothing ==
    [][(ExtractCheckedStep /\ Violating(resp') # {}) =>
          /\ resp'.status # 200
          /\ resp'.kind = "validation"
          /\ \E first \in Violating(resp') :
                /\ \A i \in Violating(resp') : first <= i
                /\ resp'.offending = {resp'.timestamps[first]}
          /\ resp'.outputs = {} /\ resp'.frames = <<>> /\ resp'.registered = {}
          /\ temp_images' = temp_images /\ nextId' = nextId
          /\ files' = files /\ nextPath' = nextPath + 1]_vars

\* a request whose first timestamp is valid and whose second is not was
\* refused
C12_Witness ==
    /\ resp.op = "extract-frames" /\ resp.status # 200
    /\ Violating(resp) # {} /\ 1 \notin Violating(resp)
    /\ resp.offending # {}

\* C13: a successful /extract-frames request for the timestamps t[0..n-1]
\* answers with exactly n frames and frames_count = n; the i-th frame has
\* frame_number i and timestamp t[i] and refers to the file of the i-th
\* extraction (the files are created in extraction order, one per timestamp,
\* duplicates included); in URL mode through its own id in the store, in
\* base64 mode with no id.
C13_FramesFollowTimestamps ==
    (resp.op = "extract-frames" /\ resp.status = 200) =>
        LET n == Len(resp.timestamps)
            frame(i) == resp.frames[i]
        IN /\ Violating(resp) = {}
           /\ Len(resp.frames) = n
           /\ resp.frames_count = {n}
           /\ Cardinality(resp.outputs) = n
           /\ \A i \in 1..n :
                 /\ frame(i).frame_number = i - 1
                 /\ frame(i).timestamp = resp.timestamps[i]
                 /\ frame(i).path \in resp.outputs
                 /\ \A j \in 1..n : i < j => frame(i).path < frame(j).path
                 /\ resp.kind = "base64" => frame(i).image_id = {}
                 /\ resp.kind = "urls" =>
                       /\ Cardinality(frame(i).image_id) = 1
                       /\ \A id \in frame(i).image_id :
                             /\ id \in DOMAIN temp_images
                             /\ temp_images[id].path = frame(i).path
                       /\ \A j \in 1..n : i # j => frame(i).image_id # frame(j).image_id

\* a request for the same timestamp twice was answered with urls
C13_Witness ==
    /\ resp.op = "extract-frames" /\ resp.status = 200 /\ resp.kind = "urls"
    /\ Len(resp.timestamps) = 2
    /\ resp.timestamps[1] = resp.timestamps[2]

\* the durations of the call have been computed
Computed == call.sync_duration # {}

\* C14: whenever a target_duration is given to merge_audio_video, 0
\* included, the sync duration is that target_duration, whatever the probed
\* durations are.
C14_TargetDurationAlwaysUsed ==
    (Computed /\ call.target_duration # {}) =>
        call.sync_duration = call.target_duration

\* C15: with no target_duration the sync duration is the smaller of the two
\* probed durations, and the speed multiplier is video_duration /
\* audio_duration when audio_duration > 0 and 1 when audio_duration is 0.
C15_MinDurationAndSpeed ==
    (Computed /\ call.target_duration = {}) =>
        /\ \E m \in {call.video_duration, call.audio_duration} :
              /\ m <= call.video_duration /\ m <= call.audio_duration
              /\ call.sync_duration = {m}
        /\ Cardinality(call.speed_factor) = 1
        /\ \A f \in call.speed_factor :
              /\ f.den > 0
              /\ call.audio_duration > 0 =>
                    f.num * call.audio_duration = call.video_duration * f.den
              /\ call.audio_duration = 0 => f.num = f.den

\* a 10 s video and a 5 s audio with no target: sync duration 5, speed 2
C15_Witness ==
    /\ call.video_duration = 10 /\ call.audio_duration = 5
    /\ call.target_duration = {}
    /\ call.sync_duration = {5}
    /\ call.speed_factor = {[num |-> 2, den |-> 1]}

\* C16: whenever ffprobe or ffmpeg exits non-zero during /merge, /stitch or
\* /extract-frames, the caller is answered 500 by the handler's own except
\* clause, with the tool's diagnostic output: the clause does not fail
\* while it builds the answer.
C16_ToolFailureIsReported ==
    (resp.op \in Pipelines /\ resp.kind = "tool") =>
        resp.status = 500 /\ resp.handled

\* the artifacts registered so far whose expiry has passed are all
\* reclaimed: neither their entries nor their files are left
ExpiredAllReclaimed ==
    \A i \in DOMAIN registry :
        Registered(i).expires_at < now =>
            i \notin DOMAIN temp_images /\ Registered(i).path \notin files

\* C17: every registered artifact is reclaimed once a sweeping request
\* arrives after its expiry.  The first sweep with expires_at < now removes
\* the entry and deletes the file, whether or not the artifact was ever
\* retrieved; and as long as sweeping requests keep arriving, the service
\* is again and again in a state where every artifact whose expiry has
\* passed is reclaimed (ids and paths are not used twice, so a reclaimed
\* artifact stays reclaimed).  os.unlink is taken to succeed.
C17_ExpiredEventuallyReclaimed ==
    /\ [][\A i \in DOMAIN temp_images :
            ((GetStep \/ ExtractSweepStep) /\ temp_images[i].expires_at < now) =>
                i \notin DOMAIN temp_images' /\ temp_images[i].path \notin files']_vars
    /\ []<>ExpiredAllReclaimed

\* an artifact that was never retrieved is gone, with its file, after a GET
\* for another id
C17_Witness ==
    /\ IsGet
    /\ \E i \in DOMAIN registry :
          /\ i \notin resp.id
          /\ registry[i].ttl_given
          /\ i \notin DOMAIN temp_images
          /\ Registered(i).path \notin files

\* the last request ran a sweep (at the clock value resp.t1)
Swept == IsGet \/ (resp.op = "extract-frames" /\ resp.reclaimed # {})

\* C18: every key of temp_images maps to an artifact whose expires_at was
\* strictly in the future when the last sweep ran (the store changes only in
\* requests that sweep, so it is enough to look right after them); and an
\* entry just registered, whatever url_expiry_seconds was accepted, has its
\* expires_at strictly in the future.
C18_EntriesLiveAtLastSweep ==
    Swept =>
        /\ \A i \in DOMAIN temp_images : temp_images[i].expires_at > resp.t1
        /\ \A i \in resp.registered : temp_images[i].expires_at > resp.t2

\* C19: the operations that change the store never act twice on the same
\* entry, over all interleavings of /extract-frames and /temp-image
\* requests: os.unlink is called at most once on an entry's file and its key
\* is deleted at most once, by the sweep or by the expiry branch but not
\* both; a key is in the store exactly until that one deletion, and nothing
\* is unlinked while its entry is registered.
C19_StoreOperationsExclusive ==
    \A i \in DOMAIN registry :
        /\ registry[i].unlinks <= 1
        /\ registry[i].dels <= 1
        /\ registry[i].unlinks = registry[i].dels
        /\ i \in DOMAIN temp_images <=> registry[i].dels = 0

\* one GET in which the sweep reclaimed one entry and the expiry branch
\* another
C19_Witness ==
    /\ IsGet /\ resp.status = 410
    /\ resp.reclaimed = {1}

\* C20: when the file system refuses to delete the file of an expired
\* artifact, neither cleanup_expired_images nor the expiry branch of
\* get_temp_image lets the failure out: the request is answered as it would
\* have been, the sweep removes every expired entry, the refused one
\* included, deletes the files of the others, and returns the number of all
\* of them; only the refused files stay on storage.
C20_UnlinkFailureSwallowed ==
    [][((GetStep \/ ExtractSweepStep) /\ resp'.denied # {}) =>
          LET expired == {i \in DOMAIN temp_images : temp_images[i].expires_at < now}
              late == {i \in DOMAIN temp_images : temp_images[i].expires_at < now'}
          IN /\ resp'.status \in {200, 404, 410}
             /\ resp'.handled
             /\ \A i \in expired : i \notin DOMAIN temp_images'
             /\ resp'.reclaimed = {Cardinality(expired)}
             /\ resp'.status = 410 =>
                   \A i \in resp'.id : i \in late /\ i \notin DOMAIN temp_images'
             /\ \A i \in expired \cup (IF resp'.status = 410 THEN resp'.id ELSE {}) :
                   temp_images[i].path \in files' <=>
                       (temp_images[i].path \in resp'.denied /\ temp_images[i].path \in files)]_vars

\* a sweep found two expired entries; the deletion of one file was refused
\* and the file is still there, the other file is gone, both entries are
\* removed and counted
C20_Witness ==
    /\ Swept
    /\ resp.reclaimed = {2}
    /\ Cardinality(resp.denied) = 1
    /\ resp.denied \subseteq files
    /\ \E i \in DOMAIN registry :
          /\ registry[i].dels = 1
          /\ Registered(i).path \notin files
    /\ \A i \in DOMAIN registry :
          Registered(i).path \in resp.denied => i \notin DOMAIN temp_images

\* C21: with deletions that succeed and no one else deleting temporary
\* files, every entry of temp_images refers to a file that is on storage and
\* no two entries share a path: a file is never deleted while its entry
\* stays, and the frame files that a base64 answer deletes are not
\* registered.
C21_EntriesHaveTheirFiles ==
    /\ \A i \in DOMAIN temp_images : temp_images[i].path \in files
    /\ \A i, j \in DOMAIN temp_images :
          i # j => temp_images[i].path # temp_images[j].path
    /\ (resp.op = "extract-frames" /\ resp.kind = "base64") =>
          /\ resp.outputs \cap files = {}
          /\ \A i \in DOMAIN temp_images : temp_images[i].path \notin resp.outputs

\* a base64 answer deleted its frame files while the store held an entry
\* registered earlier
C21_Witness ==
    /\ resp.op = "extract-frames" /\ resp.kind = "base64"
    /\ resp.outputs # {}
    /\ temp_images # EmptyStore

====
